---- MODULE Spec2Model ----
(***************************************************************************)
(* Model of the futarchy UI client glue:                                   *)
(*   - AutocratProvider (the context provider): program version kept in    *)
(*     local storage, active DAO resolution, the daoTokens effect, the     *)
(*     proposals effect, and the createAmm / swap convenience methods;     *)
(*   - useInitializeProposal (the hook): the initializeProposal callback.  *)
(*                                                                         *)
(* JavaScript values are modelled as follows.  `undefined` is the empty    *)
(* sequence None and a defined value x is Some(x) = <<x>>.  An object with *)
(* ordered keys (a TokensDict) is a sequence of [k, v] entries with        *)
(* distinct keys, so that JSON.stringify, which depends on key order, can  *)
(* be modelled.  A PublicKey is a natural number and its base58 string is  *)
(* the record [b58 |-> n].                                                 *)
(***************************************************************************)
EXTENDS Integers, Sequences, FiniteSets, TLC

-----------------------------------------------------------------------------
(* Bounds of the model *)

\* longest DAO list a fetch returns
MaxDaos == 2
\* longest proposal list a fetch returns
MaxProposals == 3
\* proposal numbers are 1..MaxNumber
MaxNumber == 2
\* setProgramVersion is called with n in (0 - MaxNeg)..MaxN
MaxNeg == 1
MaxN == 4
\* largest base mint supply the mint fetch returns
MaxSupply == 1

-----------------------------------------------------------------------------
(* JavaScript helpers *)

None == <<>>
Some(x) == <<x>>
IsSome(o) == o # <<>>
Val(o) == o[1]

\* arr[n] of a JavaScript array: undefined outside 0..length-1
At(arr, n) == IF n \in 0..(Len(arr) - 1) THEN Some(arr[n + 1]) ELSE None

\* arr.indexOf(o) for an optional value o: first index, or -1
IndexOf(arr, o) ==
  IF IsSome(o) /\ \E i \in 1..Len(arr) : arr[i] = Val(o)
    THEN (CHOOSE i \in 1..Len(arr) :
            arr[i] = Val(o) /\ \A j \in 1..(i - 1) : arr[j] # Val(o)) - 1
    ELSE -1

\* String(i) of a small integer
StringOf(i) ==
  CASE i = -1 -> "-1"
    [] i = 0 -> "0"
    [] i = 1 -> "1"
    [] i = 2 -> "2"
    [] i = 3 -> "3"
    [] OTHER -> "other"

\* Number(s): None stands for NaN; Number(undefined) is NaN
NumberOf(s) ==
  IF ~IsSome(s) THEN None
  ELSE CASE Val(s) = "-1" -> Some(-1)
         [] Val(s) = "0" -> Some(0)
         [] Val(s) = "1" -> Some(1)
         [] Val(s) = "2" -> Some(2)
         [] Val(s) = "3" -> Some(3)
         [] OTHER -> None

\* publicKey.toString() / publicKey.toJSON()
Base58(pk) == [b58 |-> pk]
\* new PublicKey(string)
PublicKeyOf(s) == s.b58

\* keys of an ordered object
Keys(d) == {d[i].k : i \in 1..Len(d)}
HasKey(d, key) == key \in Keys(d)
Get(d, key) == IF HasKey(d, key)
                 THEN Some(d[CHOOSE i \in 1..Len(d) : d[i].k = key].v)
                 ELSE None

RECURSIVE SelectSeqBy(_, _)
\* the entries of b, in order, whose key is not a key of a
SelectSeqBy(a, b) ==
  IF b = <<>> THEN <<>>
  ELSE IF HasKey(a, Head(b).k) THEN SelectSeqBy(a, Tail(b))
       ELSE <<Head(b)>> \o SelectSeqBy(a, Tail(b))

\* { ...a, ...b }: keys of a keep their place and take b's value, new keys
\* of b follow in b's order
Spread(a, b) ==
  [i \in 1..Len(a) |->
     IF HasKey(b, a[i].k) THEN [k |-> a[i].k, v |-> Val(Get(b, a[i].k))]
     ELSE a[i]] \o SelectSeqBy(a, b)

\* JSON.stringify of a TokensDict: key order kept, PublicKey as base58
JSONStringify(d) ==
  [i \in 1..Len(d) |->
     [k |-> d[i].k,
      v |-> [symbol |-> d[i].v.symbol, publicKey |-> Base58(d[i].v.publicKey)]]]

-----------------------------------------------------------------------------
(* Constants of @/lib/constants as the provider uses them *)

AUTOCRAT_VERSIONS ==
  <<[label |-> "V0.3"], [label |-> "V0.2"], [label |-> "V0.1"]>>

Networks == {"devnet", "mainnet", "custom"}

Token(symbol, pk) == [symbol |-> symbol, publicKey |-> pk]

staticTokens == <<[k |-> "wsol", v |-> Token("WSOL", 1)]>>
devnetTokens == <<[k |-> "meta", v |-> Token("META", 2)],
                  [k |-> "usdc", v |-> Token("USDC", 3)],
                  [k |-> "musdc", v |-> Token("MUSDC", 4)]>>
mainnetTokens == <<[k |-> "meta", v |-> Token("META", 5)],
                   [k |-> "usdc", v |-> Token("USDC", 6)]>>

\* the hard coded DAO list; only DAOS[0].publicKey is read
DAOS == <<[publicKey |-> 21]>>

\* the DAO accounts the program may hold on chain: public key, treasury,
\* token mint and TWAP parameters
DaoAccounts ==
  { [publicKey |-> 21, account |-> [treasury |-> 31, tokenMint |-> 2,
       twapInitialObservation |-> 41, twapMaxObservationChangePerUpdate |-> 51]],
    [publicKey |-> 22, account |-> [treasury |-> 32, tokenMint |-> 3,
       twapInitialObservation |-> 42, twapMaxObservationChangePerUpdate |-> 52]],
    [publicKey |-> 23, account |-> [treasury |-> 33, tokenMint |-> 5,
       twapInitialObservation |-> 43, twapMaxObservationChangePerUpdate |-> 53]] }

-----------------------------------------------------------------------------
(* State *)

VARIABLES
  network,          \* useNetworkConfiguration().network
  programVersion,   \* useLocalStorage 'program_version': None is undefined
  versionStore,     \* the string stored under 'program_version', if any
  daos,             \* data of the DAO list query: None until fetched
  allProposals,     \* data of the proposals query: None until fetched
  proposals,        \* useState<Proposal[]>(): None until first set
  daoTokens,        \* useLocalStorage 'futarchy-tokens'
  tokensEffect,     \* the daoTokens effect: "pending", "ran", "threw", "stale"
  proposalsEffect,  \* the proposals effect: "pending", "ran"
  op                \* the invocation of createAmm, swap or
                    \* initializeProposal that is followed

ctxVars == <<network, programVersion, versionStore, daos, allProposals,
             proposals, daoTokens, tokensEffect, proposalsEffect>>
vars == <<network, programVersion, versionStore, daos, allProposals,
          proposals, daoTokens, tokensEffect, proposalsEffect, op>>

-----------------------------------------------------------------------------
(* AutocratProvider: program version *)

\* serialize: (value) => String(AUTOCRAT_VERSIONS.indexOf(value))
serialize(value) == StringOf(IndexOf(AUTOCRAT_VERSIONS, value))

\* deserialize: (value) => AUTOCRAT_VERSIONS[Number(value)]
deserialize(value) ==
  IF IsSome(NumberOf(value)) THEN At(AUTOCRAT_VERSIONS, Val(NumberOf(value)))
  ELSE None

\* n < AUTOCRAT_VERSIONS.length ? AUTOCRAT_VERSIONS[n] : AUTOCRAT_VERSIONS[0]
SetProgramVersionValue(n) ==
  IF n < Len(AUTOCRAT_VERSIONS) THEN At(AUTOCRAT_VERSIONS, n)
  ELSE At(AUTOCRAT_VERSIONS, 0)

\* const { programId, idl } = programVersion!  throws on undefined: the
\* provider renders, and its effects and callbacks exist, only with a version
Rendered == IsSome(programVersion)

\* the query keys hold network and programVersion.label: a new key has no data
\* yet, and both effects list network and programVersion.label as dependencies
KeysChanged(v) ==
  /\ daos' = None
  /\ allProposals' = None
  /\ tokensEffect' = "pending"
  /\ proposalsEffect' = "pending"
  /\ UNCHANGED <<proposals, daoTokens>>

SetProgramVersion(n) ==
  /\ Rendered
  /\ programVersion' = SetProgramVersionValue(n)
  /\ versionStore' = Some(serialize(programVersion'))
  /\ IF programVersion' # programVersion
       THEN KeysChanged(programVersion')
       ELSE UNCHANGED <<daos, allProposals, proposals, daoTokens,
                        tokensEffect, proposalsEffect>>
  /\ UNCHANGED <<network, op>>

\* the stored string is read back: the default value when nothing is stored
ReloadProgramVersion ==
  /\ programVersion' = IF IsSome(versionStore) THEN deserialize(versionStore)
                       ELSE At(AUTOCRAT_VERSIONS, 0)
  /\ IF programVersion' # programVersion
       THEN KeysChanged(programVersion')
       ELSE UNCHANGED <<daos, allProposals, proposals, daoTokens,
                        tokensEffect, proposalsEffect>>
  /\ UNCHANGED <<network, versionStore, op>>

SwitchNetwork(n) ==
  /\ Rendered
  /\ n # network
  /\ network' = n
  /\ KeysChanged(programVersion)
  /\ UNCHANGED <<programVersion, versionStore, op>>

-----------------------------------------------------------------------------
(* AutocratProvider: active DAO *)

RECURSIVE find(_)
\* daos.find((dao) => dao.publicKey.toString() === DAOS[0].publicKey.toString())
find(list) ==
  IF list = <<>> THEN None
  ELSE IF Base58(Head(list).publicKey) = Base58(DAOS[1].publicKey)
         THEN Some(Head(list))
         ELSE find(Tail(list))

\* the selection without the lookup of DAOS[0]
SelectFirstDao(d) == IF ~IsSome(d) THEN None ELSE At(Val(d), 0)

\* let selectedDao = daos?.find(...); if (!selectedDao && daos) [selectedDao] = daos
SelectDao(d) ==
  IF ~IsSome(d) THEN None
  ELSE IF IsSome(find(Val(d))) THEN find(Val(d))
       ELSE At(Val(d), 0)

selectedDao == SelectDao(daos)
daoKey == IF IsSome(selectedDao) THEN Some(Val(selectedDao).publicKey) ELSE None
daoTreasuryKey ==
  IF IsSome(selectedDao) THEN Some(Val(selectedDao).account.treasury) ELSE None
daoState == IF IsSome(selectedDao) THEN Some(Val(selectedDao).account) ELSE None

RECURSIVE SeqsOver(_, _)
\* the sequences of at most n distinct elements of S
SeqsOver(S, n) ==
  IF n = 0 THEN {<<>>}
  ELSE {<<>>} \cup
       UNION {{<<x>> \o s : s \in SeqsOver(S \ {x}, n - 1)} : x \in S}

DaoLists == SeqsOver(DaoAccounts, MaxDaos)

\* queryFn: () => autocratProgram.account.dao.all() resolves
FetchDaos(list) ==
  /\ Rendered
  /\ daos' = Some(list)
  /\ tokensEffect' = "pending"
  /\ UNCHANGED <<network, programVersion, versionStore, allProposals,
                 proposals, daoTokens, proposalsEffect, op>>

-----------------------------------------------------------------------------
(* AutocratProvider: tokens *)

defaultTokens(net) ==
  CASE net = "devnet" -> Spread(staticTokens, devnetTokens)
    [] net = "mainnet" -> Spread(staticTokens, mainnetTokens)
    [] OTHER -> Spread(Spread(staticTokens, mainnetTokens), devnetTokens)

\* deserialize of 'futarchy-tokens': {} for an empty string, else the parsed
\* object with every publicKey rebuilt
deserializeTokens(s) ==
  IF ~IsSome(s) THEN <<>>
  ELSE [i \in 1..Len(Val(s)) |->
          [k |-> Val(s)[i].k,
           v |-> [symbol |-> Val(s)[i].v.symbol,
                  publicKey |-> PublicKeyOf(Val(s)[i].v.publicKey)]]]

\* Object.entries(defaultTokens).filter(publicKey.toString() === mint.toString())
daoToken(net, mint) ==
  SelectSeq(defaultTokens(net), LAMBDA e : Base58(e.v.publicKey) = Base58(mint))

\* the quote token: musdc off V0.3 on devnet, usdc otherwise
quoteTokenOf(net, version) ==
  IF version.label # "V0.3" /\ net = "devnet"
    THEN Val(Get(defaultTokens(net), "musdc"))
    ELSE Val(Get(defaultTokens(net), "usdc"))

usedTokens(net, version, state) ==
  Spread(Spread(staticTokens,
                <<[k |-> "baseToken", v |-> daoToken(net, state.tokenMint)[1].v]>>),
         <<[k |-> "quoteToken", v |-> quoteTokenOf(net, version)]>>)

mergedTokens(tokens, net, version, state) ==
  Spread(tokens, usedTokens(net, version, state))

\* if (JSON.stringify(mergedTokens) !== JSON.stringify(usedTokens))
NeedsUpdate(merged, used) == JSONStringify(merged) # JSONStringify(used)

TokensEffect ==
  /\ Rendered
  /\ tokensEffect = "pending"
  /\ IF ~IsSome(daoState)
       THEN /\ tokensEffect' = "ran"
            /\ UNCHANGED daoTokens
       ELSE IF daoToken(network, Val(daoState).tokenMint) = <<>>
         \* daoToken[0][1] of an empty array throws
         THEN /\ tokensEffect' = "threw"
              /\ UNCHANGED daoTokens
         ELSE /\ tokensEffect' = "ran"
              /\ LET used == usedTokens(network, Val(programVersion), Val(daoState))
                     merged == mergedTokens(daoTokens, network,
                                            Val(programVersion), Val(daoState))
                 IN  IF NeedsUpdate(merged, used)
                       THEN daoTokens' = merged
                       ELSE UNCHANGED daoTokens
  /\ UNCHANGED <<network, programVersion, versionStore, daos, allProposals,
                 proposals, proposalsEffect, op>>

\* the stored tokens are read back: the key was emptied (s is undefined) or
\* holds the serialized current value
TokensStorageEvent(s) ==
  /\ Rendered
  /\ daoTokens' = deserializeTokens(s)
  /\ tokensEffect' = IF tokensEffect = "ran" /\ daoTokens' # daoTokens
                       THEN "stale" ELSE tokensEffect
  /\ UNCHANGED <<network, programVersion, versionStore, daos, allProposals,
                 proposals, proposalsEffect, op>>

-----------------------------------------------------------------------------
(* AutocratProvider: proposals *)

\* the comparator with the order reversed
compareAscending(a, b) == IF a.account.number > b.account.number THEN 1 ELSE -1

\* (a, b) => a.account.number < b.account.number ? 1 : -1
compare(a, b) == IF a.account.number < b.account.number THEN 1 ELSE -1

RECURSIVE insert(_, _)
\* x goes before the first element it compares below
insert(sorted, x) ==
  IF sorted = <<>> THEN <<x>>
  ELSE IF compare(x, Head(sorted)) < 0 THEN <<x>> \o sorted
       ELSE <<Head(sorted)>> \o insert(Tail(sorted), x)

RECURSIVE sort(_)
\* Array.prototype.sort with the comparator, as an insertion sort
sort(list) ==
  IF list = <<>> THEN <<>>
  ELSE insert(sort(SubSeq(list, 1, Len(list) - 1)), list[Len(list)])

\* { title: `Proposal ${number}`, description: '', ...prop }
toProposal(prop) ==
  [title |-> <<"Proposal ", prop.account.number>>, description |-> "",
   publicKey |-> prop.publicKey, account |-> prop.account]

\* the lists a fetch may return: at most MaxProposals accounts with distinct
\* public keys; a public key is opaque, so the i-th fetched account is given
\* the key i
ProposalLists ==
  UNION {{[i \in 1..len |-> [publicKey |-> i, account |-> [number |-> f[i]]]] :
            f \in [1..len -> 1..MaxNumber]} : len \in 0..MaxProposals}

\* queryFn: () => autocratProgram?.account.proposal?.all() resolves
FetchProposals(list) ==
  /\ Rendered
  /\ allProposals' = Some(list)
  /\ proposalsEffect' = "pending"
  /\ UNCHANGED <<network, programVersion, versionStore, daos, proposals,
                 daoTokens, tokensEffect, op>>

\* the effect sorts the fetched array in place, then maps it
ProposalsEffect ==
  /\ Rendered
  /\ proposalsEffect = "pending"
  /\ LET props == IF IsSome(allProposals) THEN sort(Val(allProposals)) ELSE <<>>
     IN  /\ allProposals' = IF IsSome(allProposals) THEN Some(props) ELSE None
         /\ proposals' = Some([i \in 1..Len(props) |-> toProposal(props[i])])
  /\ proposalsEffect' = "ran"
  /\ UNCHANGED <<network, programVersion, versionStore, daos, daoTokens,
                 tokensEffect, op>>

-----------------------------------------------------------------------------
(* Invocations of createAmm, swap and initializeProposal                   *)
(*                                                                         *)
(* An invocation closes over the values of the render it was created in    *)
(* (cap) and shares no state with other invocations, so one invocation is  *)
(* followed at a time.  calls is the trace of SDK, RPC and wallet calls it *)
(* made, logged what it passed to console.error, pc the call it awaits.    *)
(* failed names the call the environment rejected, supply is the supply    *)
(* the mint fetch returned and missing tells that a prerequisite was       *)
(* absent when it was invoked: these are history.                          *)

AMM_PROGRAM_ID == 61

NoError == [kind |-> "none", of |-> ""]
\* the rejection of an awaited call
SdkError(call) == [kind |-> "rejection", of |-> call]
\* new Error(message)
Error(message) == [kind |-> "Error", of |-> message]
ReferenceError(name) == [kind |-> "ReferenceError", of |-> name]

Call(name, args) == [name |-> name, args |-> args]

Idle ==
  [fn |-> "none", status |-> "idle", pc |-> "", calls |-> <<>>, logged |-> <<>>,
   err |-> NoError, failed |-> "", supply |-> None, missing |-> FALSE,
   args |-> <<>>, cap |-> <<>>, tx |-> <<>>]

Settled == op.status \in {"idle", "resolved", "rejected"}

\* return;
Return(o) == [o EXCEPT !.status = "resolved", !.pc = ""]
\* throw e; outside any try block
Throw(o, e) == [o EXCEPT !.status = "rejected", !.pc = "", !.err = e]
\* a catch block that logs and does not rethrow
CatchLogOnly(o, e) ==
  [o EXCEPT !.status = "resolved", !.pc = "", !.logged = Append(@, e)]

\* catch (err) { console.error(..., err); throw err; }
CatchLogRethrow(o, e) ==
  [o EXCEPT !.status = "rejected", !.pc = "", !.err = e,
            !.logged = Append(@, e)]
\* the next awaited call is made
Await(o, name, args) ==
  [o EXCEPT !.status = "running", !.pc = name,
            !.calls = Append(@, Call(name, args))]
\* a call that returns synchronously
Did(o, name, args) == [o EXCEPT !.calls = Append(@, Call(name, args))]
\* the environment rejects the awaited call
Rejected(o) == [o EXCEPT !.failed = o.pc]
\* the mint fetch returns a mint with this supply
Fetched(o, supply) == [o EXCEPT !.supply = Some(supply)]

baseToken == Get(daoTokens, "baseToken")
quoteToken == Get(daoTokens, "quoteToken")

\* the guard without the provider wallet
AmmGuardNoWallet(program, state, base, quote, wallet) ==
  ~program \/ ~IsSome(state) \/ ~IsSome(base) \/ ~IsSome(quote)

\* !autocratProgram || !daoState || !daoTokens?.baseToken ||
\* !daoTokens?.quoteToken || !provider.wallet
AmmGuard(program, state, base, quote, wallet) ==
  ~program \/ ~IsSome(state) \/ ~IsSome(base) \/ ~IsSome(quote) \/ ~wallet

\* new Program(...) in useMemo: the provider always holds a program
autocratProgram == TRUE

\* daoTokens.baseToken.publicKey.equals(daoTokens.quoteToken.publicKey)
SameMint(base, quote) == base.publicKey = quote.publicKey

\* the supply check left out
SupplyUnchecked(supply) == FALSE

\* baseMint.supply !== 0
SupplyNotZero(supply) == supply # 0

\* the arguments of ammClient.createAmm
CreateAmmArgs(proposalAddress, base, quote, state, pof, uri, proposalNumber, a) ==
  <<proposalAddress, base.publicKey, quote.publicKey,
    state.twapInitialObservation, pof, uri, proposalNumber, base.publicKey,
    quote.publicKey, a, state.twapMaxObservationChangePerUpdate>>

\* PublicKey.findProgramAddress(seeds, programId): the derived address
ProgramAddress(seeds, programId) == [seeds |-> seeds, programId |-> programId]

\* the autocrat program id of a program version
programIdOf(version) == [programOf |-> version.label]

createAmm(proposalNumber, a, wallet) ==
  /\ Rendered
  /\ Settled
  /\ LET o == [Idle EXCEPT
                 !.fn = "createAmm",
                 !.args = <<"pof", "uri", proposalNumber, "symbol", a>>,
                 !.missing = ~IsSome(daoState) \/ ~IsSome(baseToken)
                               \/ ~IsSome(quoteToken) \/ ~wallet,
                 !.cap = [daoState |-> daoState, baseToken |-> baseToken,
                          quoteToken |-> quoteToken,
                          programId |-> programIdOf(Val(programVersion))]]
     IN  op' =
           IF AmmGuard(autocratProgram, daoState, baseToken, quoteToken, wallet)
             THEN Return(o)
           ELSE IF SameMint(Val(baseToken), Val(quoteToken))
             THEN Throw(o, Error("Base and quote mints must be different"))
           ELSE Await(o, "mint.fetch", <<Val(baseToken).publicKey>>)
  /\ UNCHANGED ctxVars

\* autocratProgram.account.mint.fetch settles
createAmmMintFetched(ok, supply) ==
  /\ op.fn = "createAmm" /\ op.pc = "mint.fetch"
  /\ op' =
       IF ~ok THEN Throw(Rejected(op), SdkError(op.pc))
       ELSE IF SupplyNotZero(supply)
         THEN Throw(Fetched(op, supply), Error("Base mint must have a supply of 0"))
       ELSE Await(Fetched(op, supply), "findProgramAddress",
                  <<"proposal", StringOf(op.args[3]), op.cap.programId>>)
  /\ UNCHANGED ctxVars

\* PublicKey.findProgramAddress settles, inside the try block
createAmmAddressFound(ok) ==
  /\ op.fn = "createAmm" /\ op.pc = "findProgramAddress"
  /\ op' =
       IF ~ok THEN CatchLogRethrow(Rejected(op), SdkError(op.pc))
       ELSE Await(op, "ammClient.createAmm",
                  CreateAmmArgs(
                    ProgramAddress(<<"proposal", StringOf(op.args[3])>>,
                                   op.cap.programId),
                    Val(op.cap.baseToken), Val(op.cap.quoteToken),
                    Val(op.cap.daoState), op.args[1], op.args[2], op.args[3],
                    op.args[5]))
  /\ UNCHANGED ctxVars

\* ammClient.createAmm settles, inside the try block
createAmmDone(ok) ==
  /\ op.fn = "createAmm" /\ op.pc = "ammClient.createAmm"
  /\ op' = IF ~ok THEN CatchLogRethrow(Rejected(op), SdkError(op.pc))
           ELSE Return(op)
  /\ UNCHANGED ctxVars

\* the amounts in the wrong order
SwapArgsSwapped(amm, swapType, inputAmount, outputAmountMin) ==
  <<amm.publicKey, swapType, outputAmountMin, inputAmount>>

\* the arguments of ammClient.swap
SwapArgs(amm, swapType, inputAmount, outputAmountMin) ==
  <<amm.publicKey, swapType, inputAmount, outputAmountMin>>

\* the seeds of the AMM address
AmmSeeds(base, quote) == <<"amm__", base.publicKey, quote.publicKey>>

swap(swapType, inputAmount, outputAmountMin, wallet) ==
  /\ Rendered
  /\ Settled
  /\ LET o == [Idle EXCEPT
                 !.fn = "swap",
                 !.args = <<swapType, inputAmount, outputAmountMin>>,
                 !.missing = ~IsSome(daoState) \/ ~IsSome(baseToken)
                               \/ ~IsSome(quoteToken) \/ ~wallet,
                 !.cap = [baseToken |-> baseToken, quoteToken |-> quoteToken]]
     IN  op' =
           IF AmmGuard(autocratProgram, daoState, baseToken, quoteToken, wallet)
             THEN Return(o)
           ELSE Await(o, "findProgramAddress",
                      <<AmmSeeds(Val(baseToken), Val(quoteToken)), AMM_PROGRAM_ID>>)
  /\ UNCHANGED ctxVars

\* PublicKey.findProgramAddress settles
swapAddressFound(ok) ==
  /\ op.fn = "swap" /\ op.pc = "findProgramAddress"
  /\ op' =
       IF ~ok THEN Throw(Rejected(op), SdkError(op.pc))
       ELSE Await(op, "ammClient.getAmm",
                  <<ProgramAddress(AmmSeeds(Val(op.cap.baseToken),
                                            Val(op.cap.quoteToken)),
                                   AMM_PROGRAM_ID)>>)
  /\ UNCHANGED ctxVars

\* ammClient.getAmm settles with the account stored at the address
swapAmmFetched(ok) ==
  /\ op.fn = "swap" /\ op.pc = "ammClient.getAmm"
  /\ op' =
       IF ~ok THEN Throw(Rejected(op), SdkError(op.pc))
       ELSE Await(op, "ammClient.swap",
                  SwapArgs([publicKey |-> op.calls[Len(op.calls)].args[1]],
                           op.args[1], op.args[2], op.args[3]))
  /\ UNCHANGED ctxVars

\* ammClient.swap settles, inside the try block
swapDone(ok) ==
  /\ op.fn = "swap" /\ op.pc = "ammClient.swap"
  /\ op' = IF ~ok THEN CatchLogRethrow(Rejected(op), SdkError(op.pc))
           ELSE Return(op)
  /\ UNCHANGED ctxVars

-----------------------------------------------------------------------------
(* useInitializeProposal *)

\* the public key of the connected wallet and of the generated keypair
WalletKey == 71
ProposalKey == 81

\* !wallet?.publicKey || !wallet.signAllTransactions || !baseToken ||
\* !quoteToken || !daoTreasuryKey || !program
ProposalGuard(publicKey, signAllTransactions, base, quote, treasury, program) ==
  ~publicKey \/ ~signAllTransactions \/ ~IsSome(base) \/ ~IsSome(quote)
    \/ ~IsSome(treasury) \/ ~program

\* the accounts of the initializeProposal instruction
ProposalAccountsOf(proposal, dao, proposer) ==
  [proposal |-> proposal, dao |-> dao, failAmm |-> "failAmm",
   passAmm |-> "passAmm", proposer |-> proposer]

\* new Transaction().add(createInstruction, initializeProposal instruction)
initProposalTx == <<"createInstruction", "initializeProposal">>

initializeProposal(publicKey, signAllTransactions) ==
  /\ Rendered
  /\ Settled
  /\ LET o == [Idle EXCEPT
                 !.fn = "initializeProposal",
                 !.args = <<"url", "instruction">>,
                 !.missing = ~publicKey \/ ~signAllTransactions
                               \/ ~IsSome(baseToken) \/ ~IsSome(quoteToken)
                               \/ ~IsSome(daoTreasuryKey),
                 !.cap = [daoKey |-> daoKey, daoTreasuryKey |-> daoTreasuryKey]]
     IN  op' =
           IF ProposalGuard(publicKey, signAllTransactions, baseToken,
                            quoteToken, daoTreasuryKey, autocratProgram)
             THEN Return(o)
           ELSE Await(Did(o, "Keypair.generate", <<>>),
                      "createInstruction", <<ProposalKey, 1500>>)
  /\ UNCHANGED ctxVars

\* program.account.proposal.createInstruction settles; the second argument of
\* add() is evaluated next.  failAmm and passAmm are free identifiers of the
\* module: they resolve only if the global object defines them (bound), and
\* evaluating the accounts literal throws a ReferenceError otherwise
proposalCreateInstructionBuilt(ok, bound) ==
  /\ op.fn = "initializeProposal" /\ op.pc = "createInstruction"
  /\ op' =
       IF ~ok THEN Throw(Rejected(op), SdkError(op.pc))
       ELSE IF ~bound THEN Throw(op, ReferenceError("failAmm"))
       ELSE Await(op, "initializeProposal.instruction",
                  <<op.args[1], op.args[2], 0, 0, 0,
                    ProposalAccountsOf(ProposalKey, op.cap.daoKey, WalletKey)>>)
  /\ UNCHANGED ctxVars

\* .instruction() settles: the transaction is built, the blockhash requested
proposalInstructionBuilt(ok) ==
  /\ op.fn = "initializeProposal" /\ op.pc = "initializeProposal.instruction"
  /\ op' =
       IF ~ok THEN Throw(Rejected(op), SdkError(op.pc))
       ELSE Await([op EXCEPT !.tx = initProposalTx],
                  "getLatestBlockhash", <<>>)
  /\ UNCHANGED ctxVars

\* getLatestBlockhash settles: fee payer and blockhash are set, the proposal
\* keypair signs, the wallet is asked to sign
proposalBlockhashFetched(ok) ==
  /\ op.fn = "initializeProposal" /\ op.pc = "getLatestBlockhash"
  /\ op' =
       IF ~ok THEN Throw(Rejected(op), SdkError(op.pc))
       ELSE Await(Did(op, "sign", <<ProposalKey>>),
                  "signAllTransactions", <<op.tx>>)
  /\ UNCHANGED ctxVars

\* wallet.signAllTransactions settles with the one signed transaction:
\* Promise.all maps it to a send followed by a confirmation
proposalWalletSigned(ok) ==
  /\ op.fn = "initializeProposal" /\ op.pc = "signAllTransactions"
  /\ op' =
       IF ~ok THEN Throw(Rejected(op), SdkError(op.pc))
       ELSE Await(op, "sendRawTransaction", <<op.tx>>)
  /\ UNCHANGED ctxVars

\* connection.sendRawTransaction settles
proposalSent(ok) ==
  /\ op.fn = "initializeProposal" /\ op.pc = "sendRawTransaction"
  /\ op' =
       IF ~ok THEN Throw(Rejected(op), SdkError(op.pc))
       ELSE Await(op, "confirmTransaction", <<"signature", "blockhash">>)
  /\ UNCHANGED ctxVars

\* connection.confirmTransaction settles
proposalConfirmed(ok) ==
  /\ op.fn = "initializeProposal" /\ op.pc = "confirmTransaction"
  /\ op' = IF ~ok THEN Throw(Rejected(op), SdkError(op.pc))
           ELSE Return(op)
  /\ UNCHANGED ctxVars

-----------------------------------------------------------------------------
(* Specifications *)

\* what the callers pass: (proposalNumber, a) and
\* (swapType, inputAmount, outputAmountMin)
CreateAmmInputs == {<<1, 2>>, <<2, 1>>}
SwapInputs == {<<"Buy", 1, 2>>, <<"Sell", 2, 1>>}

Init ==
  /\ network \in Networks
  /\ programVersion = At(AUTOCRAT_VERSIONS, 0)
  /\ versionStore = None
  /\ daos = None
  /\ allProposals = None
  /\ proposals = None
  /\ daoTokens = defaultTokens(network)
  /\ tokensEffect = "pending"
  /\ proposalsEffect = "pending"
  /\ op = Idle

Provider ==
  \/ \E n \in (0 - MaxNeg)..MaxN : SetProgramVersion(n)
  \/ ReloadProgramVersion
  \/ \E n \in Networks : SwitchNetwork(n)
  \/ \E list \in DaoLists : FetchDaos(list)
  \/ TokensEffect
  \/ \E s \in {None, Some(JSONStringify(daoTokens))} : TokensStorageEvent(s)

Proposals ==
  \/ \E list \in ProposalLists : FetchProposals(list)
  \/ ProposalsEffect

Operations ==
  \/ \E in \in CreateAmmInputs, w \in BOOLEAN : createAmm(in[1], in[2], w)
  \/ \E ok \in BOOLEAN, supply \in 0..MaxSupply : createAmmMintFetched(ok, supply)
  \/ \E ok \in BOOLEAN : createAmmAddressFound(ok)
  \/ \E ok \in BOOLEAN : createAmmDone(ok)
  \/ \E in \in SwapInputs, w \in BOOLEAN : swap(in[1], in[2], in[3], w)
  \/ \E ok \in BOOLEAN : swapAddressFound(ok)
  \/ \E ok \in BOOLEAN : swapAmmFetched(ok)
  \/ \E ok \in BOOLEAN : swapDone(ok)
  \/ \E k \in BOOLEAN, s \in BOOLEAN : initializeProposal(k, s)
  \/ \E ok \in BOOLEAN, bound \in BOOLEAN : proposalCreateInstructionBuilt(ok, bound)
  \/ \E ok \in BOOLEAN : proposalInstructionBuilt(ok)
  \/ \E ok \in BOOLEAN : proposalBlockhashFetched(ok)
  \/ \E ok \in BOOLEAN : proposalWalletSigned(ok)
  \/ \E ok \in BOOLEAN : proposalSent(ok)
  \/ \E ok \in BOOLEAN : proposalConfirmed(ok)

\* The callbacks, with the part of the provider that decides what they close
\* over: the DAO list and the tokens (network is any of Networks from Init on).
Next ==
  \/ \E list \in DaoLists : FetchDaos(list)
  \/ TokensEffect
  \/ \E s \in {None, Some(JSONStringify(daoTokens))} : TokensStorageEvent(s)
  \/ Operations

Spec == Init /\ [][Next]_vars

\* The provider's own state: program version, network, active DAO, tokens.
SpecProvider == Init /\ [][Provider]_vars

\* The proposals pipeline, which shares only the query key (network and
\* programVersion.label) with the rest of the provider: a network switch
\* stands for a change of key.
NextProposals ==
  \/ \E n \in Networks : SwitchNetwork(n)
  \/ Proposals

SpecProposals == Init /\ [][NextProposals]_vars

-----------------------------------------------------------------------------
(* Properties of the provider *)

Versions == {AUTOCRAT_VERSIONS[i] : i \in 1..Len(AUTOCRAT_VERSIONS)}

\* C8: after any sequence of setProgramVersion(n) calls and reloads from local
\* storage, programVersion is an element of AUTOCRAT_VERSIONS, and
\* deserialize(serialize(v)) = v for every v of AUTOCRAT_VERSIONS.
C8_ProgramVersionIsAVersion ==
  /\ IsSome(programVersion)
  /\ Val(programVersion) \in Versions
  /\ \A v \in Versions : deserialize(Some(serialize(Some(v)))) = Some(v)

\* the default token whose mint is the DAO's token mint, chosen without the
\* effect's own definitions
TokenOfMint(net, mint) ==
  {defaultTokens(net)[i].v : i \in {j \in 1..Len(defaultTokens(net)) :
                                      defaultTokens(net)[j].v.publicKey = mint}}

ResolvedQuote(net, version) ==
  IF net = "devnet" /\ version.label # "V0.3"
    THEN Get(defaultTokens(net), "musdc")
    ELSE Get(defaultTokens(net), "usdc")

\* C7: after the tokens effect has run with a loaded DAO state, daoTokens
\* holds as baseToken the default token whose mint is daoState.tokenMint and
\* as quoteToken the resolved quote token (musdc on devnet off V0.3, usdc
\* otherwise).
C7_TokensResolvedAfterEffect ==
  (tokensEffect = "ran" /\ IsSome(daoState)) =>
     /\ IsSome(Get(daoTokens, "baseToken"))
     /\ Val(Get(daoTokens, "baseToken"))
          \in TokenOfMint(network, Val(daoState).tokenMint)
     /\ Get(daoTokens, "quoteToken")
          = ResolvedQuote(network, Val(programVersion))

-----------------------------------------------------------------------------
(* Properties of the proposals pipeline *)

\* p is f reordered: same length, and a bijection matches the accounts
IsPermutationOf(p, f) ==
  /\ Len(p) = Len(f)
  /\ \E perm \in [1..Len(p) -> 1..Len(p)] :
       /\ \A i, j \in 1..Len(p) : i # j => perm[i] # perm[j]
       /\ \A i \in 1..Len(p) :
            /\ p[i].publicKey = f[perm[i]].publicKey
            /\ p[i].account = f[perm[i]].account

ExposedListOf(p, f) ==
  /\ IsPermutationOf(p, f)
  /\ \A i, j \in 1..Len(p) :
       i < j => p[i].account.number >= p[j].account.number
  /\ \A i \in 1..Len(p) :
       /\ p[i].title = <<"Proposal ", p[i].account.number>>
       /\ p[i].description = ""

\* C9: whenever the proposals effect runs for a fetched list, the exposed list
\* is a permutation of the fetched list in non-increasing order of proposal
\* number, each entry titled 'Proposal <number>' with an empty description;
\* for an undefined fetched list the exposed list is empty.
C9_ProposalsSortedPermutation ==
  [][(proposalsEffect = "pending" /\ proposalsEffect' = "ran") =>
       /\ IsSome(proposals')
       /\ ExposedListOf(Val(proposals'),
                        IF IsSome(allProposals) THEN Val(allProposals) ELSE <<>>)]_vars

\* the effect has run on a list it had to reorder, with a tie
C9_Witness ==
  /\ proposalsEffect = "ran"
  /\ IsSome(proposals)
  /\ Len(Val(proposals)) = 3
  /\ Val(proposals)[1].publicKey = 3
  /\ Val(proposals)[1].account.number = 2
  /\ Val(proposals)[2].account.number = 1
  /\ Val(proposals)[3].account.number = 1

-----------------------------------------------------------------------------
(* Properties of the invocations *)

Names(calls) == [i \in 1..Len(calls) |-> calls[i].name]
CallsNamed(name) == {i \in 1..Len(op.calls) : op.calls[i].name = name}
IsPrefix(s, t) == Len(s) <= Len(t) /\ \A i \in 1..Len(s) : s[i] = t[i]

ProposalSteps ==
  <<"Keypair.generate", "createInstruction", "initializeProposal.instruction",
    "getLatestBlockhash", "sign", "signAllTransactions", "sendRawTransaction",
    "confirmTransaction">>

\* C1: every invocation of initializeProposal that passes its guard builds one
\* transaction of the two instructions (account creation, then proposal
\* initialization) and performs, in this order, blockhash fetch, keypair
\* signature, wallet signature, send and confirmation, exactly one send and
\* one confirmation; it resolves only after the confirmation, and it ends
\* otherwise only if one of its awaited calls was rejected.
C1_InitializeProposalSteps ==
  (op.fn = "initializeProposal" /\ ~op.missing) =>
     /\ IsPrefix(Names(op.calls), ProposalSteps)
     /\ \A i \in CallsNamed("sendRawTransaction") :
          op.calls[i].args[1] = <<"createInstruction", "initializeProposal">>
     /\ op.status = "resolved" => Names(op.calls) = ProposalSteps
     /\ (op.status = "rejected" /\ op.failed = "") => FALSE

\* C2: with all prerequisites present, swap calls ammClient.getAmm once, for
\* the address derived from (base mint, quote mint), and then ammClient.swap
\* once on that AMM with the caller's swapType, inputAmount and
\* outputAmountMin; ammClient.swap is never called before getAmm resolved.
C2_SwapDelegates ==
  (op.fn = "swap" /\ ~op.missing) =>
     /\ IsPrefix(Names(op.calls),
                 <<"findProgramAddress", "ammClient.getAmm", "ammClient.swap">>)
     /\ \A i \in CallsNamed("ammClient.getAmm") :
          op.calls[i].args[1] =
            [seeds |-> <<"amm__", Val(op.cap.baseToken).publicKey,
                         Val(op.cap.quoteToken).publicKey>>,
             programId |-> AMM_PROGRAM_ID]
     /\ \A i \in CallsNamed("ammClient.swap") :
          /\ op.pc # "ammClient.getAmm"
          /\ op.calls[i].args =
               <<op.calls[i - 1].args[1], op.args[1], op.args[2], op.args[3]>>
     /\ op.status = "resolved" =>
          Names(op.calls) =
            <<"findProgramAddress", "ammClient.getAmm", "ammClient.swap">>

\* a swap that resolved after delegating
C2_Witness ==
  /\ op.fn = "swap" /\ ~op.missing /\ op.status = "resolved"
  /\ Cardinality(CallsNamed("ammClient.swap")) = 1
  /\ op.args = <<"Sell", 2, 1>>

\* C3: createAmm calls ammClient.createAmm only if the base and quote mints
\* differ and the fetched base mint supply is 0: equal mints throw 'Base and
\* quote mints must be different' without a fetch, a supply other than 0
\* throws 'Base mint must have a supply of 0', and otherwise
\* ammClient.createAmm is called once with the DAO's twapInitialObservation
\* and twapMaxObservationChangePerUpdate.
C3_CreateAmmChecks ==
  (op.fn = "createAmm" /\ ~op.missing) =>
     LET same == Val(op.cap.baseToken).publicKey = Val(op.cap.quoteToken).publicKey
         made == CallsNamed("ammClient.createAmm")
     IN  /\ Cardinality(made) <= 1
         /\ made # {} => ~same /\ op.supply = Some(0)
         /\ same => /\ op.status = "rejected"
                    /\ op.err = Error("Base and quote mints must be different")
                    /\ op.calls = <<>>
         /\ (IsSome(op.supply) /\ Val(op.supply) # 0) =>
              /\ op.status = "rejected"
              /\ op.err = Error("Base mint must have a supply of 0")
         /\ \A i \in made :
              /\ op.calls[i].args[4] = Val(op.cap.daoState).twapInitialObservation
              /\ op.calls[i].args[11] =
                   Val(op.cap.daoState).twapMaxObservationChangePerUpdate
         /\ op.status = "resolved" => Cardinality(made) = 1

\* a createAmm that resolved after creating the AMM
C3_Witness ==
  /\ op.fn = "createAmm" /\ ~op.missing /\ op.status = "resolved"
  /\ op.supply = Some(0)
  /\ Cardinality(CallsNamed("ammClient.createAmm")) = 1

\* the equal mints case of C3 happens too
C3_SameMintReached ==
  /\ op.fn = "createAmm" /\ ~op.missing
  /\ op.err = Error("Base and quote mints must be different")

\* C4: no failure of an SDK call is swallowed: if an awaited call of createAmm,
\* swap or initializeProposal is rejected, the invocation rejects with that
\* same error and runs no later step; a rejection of ammClient.createAmm or
\* ammClient.swap is logged as well.
C4_RejectionsPropagate ==
  /\ op.failed # "" =>
       /\ op.status = "rejected"
       /\ op.err = SdkError(op.failed)
       /\ op.calls[Len(op.calls)].name = op.failed
       /\ op.failed \in {"ammClient.createAmm", "ammClient.swap"} =>
            op.logged = <<SdkError(op.failed)>>
  /\ op.status = "rejected" => op.pc = ""

\* a rejection of ammClient.swap has been logged and rethrown
C4_Witness ==
  /\ op.failed = "ammClient.swap"
  /\ op.status = "rejected"
  /\ op.logged = <<SdkError("ammClient.swap")>>

\* C5: an invocation made while a prerequisite is missing resolves without
\* throwing, makes no SDK or RPC call, generates no key, signs and sends
\* nothing, and changes no context state.
C5_GuardedNoOp ==
  /\ [](op.missing =>
          /\ op.status = "resolved"
          /\ op.calls = <<>>
          /\ op.logged = <<>>
          /\ op.tx = <<>>
          /\ op.err = NoError)
  /\ [][(op' # op /\ op'.missing) => UNCHANGED ctxVars]_vars

\* swap was invoked with tokens and DAO present but no provider wallet
C5_Witness ==
  /\ op.fn = "swap" /\ op.missing /\ op.status = "resolved"
  /\ IsSome(daoState) /\ IsSome(baseToken) /\ IsSome(quoteToken)

\* C6: the selected DAO is the list entry whose public key is DAOS[0]'s when
\* there is one, else the first entry, and it is undefined exactly when the
\* list is not loaded or empty; daoKey, daoTreasuryKey and daoState are taken
\* from it, so the 'dao' account initializeProposal sends is defined and is
\* the DAO whose treasury passed the guard.
C6_ActiveDao ==
  /\ IsSome(selectedDao) <=> (IsSome(daos) /\ Val(daos) # <<>>)
  /\ IsSome(selectedDao) =>
       LET list == Val(daos)
           hits == {i \in 1..Len(list) : list[i].publicKey = DAOS[1].publicKey}
       IN  /\ hits # {} =>
                 \E i \in hits : /\ Val(selectedDao) = list[i]
                                 /\ \A j \in hits : i <= j
           /\ hits = {} => Val(selectedDao) = list[1]
           /\ daoKey = Some(Val(selectedDao).publicKey)
           /\ daoTreasuryKey = Some(Val(selectedDao).account.treasury)
           /\ daoState = Some(Val(selectedDao).account)
  /\ ~IsSome(selectedDao) =>
       ~IsSome(daoKey) /\ ~IsSome(daoTreasuryKey) /\ ~IsSome(daoState)
  /\ \A i \in CallsNamed("initializeProposal.instruction") :
       LET dao == op.calls[i].args[6].dao
       IN  /\ IsSome(dao)
           /\ \E d \in DaoAccounts :
                /\ d.publicKey = Val(dao)
                /\ op.cap.daoTreasuryKey = Some(d.account.treasury)

\* the DAOS[0] entry is second in the list and is the DAO the instruction names
C6_Witness ==
  /\ IsSome(daos) /\ Len(Val(daos)) = 2
  /\ Val(daos)[2].publicKey = DAOS[1].publicKey
  /\ \E i \in CallsNamed("initializeProposal.instruction") :
       op.calls[i].args[6].dao = Some(DAOS[1].publicKey)

====
